---- MODULE Spec2Model ----
(***************************************************************************)
(* A model of hype.cli: the Hype application object of src/hype/app.py     *)
(* (command registration through the command() decorator, run() and        *)
(* echo()) and the helpers of src/hype/utils.py.                           *)
(*                                                                         *)
(* Python values are modelled as strings; None and inspect.Parameter.empty *)
(* are two reserved strings that no input uses.  A dict is an ordered      *)
(* association list (a sequence of [key, value] records), which keeps      *)
(* Python's insertion order of keys.                                       *)
(***************************************************************************)
EXTENDS Integers, Sequences, FiniteSets, TLC

VARIABLES
    created,            \* the Hype instances constructed so far
    commands,           \* holder -> the dict Hype.__commands
    required_commands,  \* holder -> the list Hype.__required_commands
    commands_function,  \* holder -> the dict Hype.__commands_function
    command_parser,     \* instance -> self.__command_parser
    regLog,             \* history: the registrations performed, in order
    last                \* history: what the last call of run() or echo() did

vars == <<created, commands, required_commands, commands_function,
          command_parser, regLog, last>>

----------------------------------------------------------------------------
(* Bounds of the model *)

MaxRegs == 2        \* registrations performed in one process
MaxIndexLen == 2    \* run() is not started once the index is this long

----------------------------------------------------------------------------
(* Python values *)

None == "<None>"
Empty == "<empty>"

\* An attribute that __init__ does not set and no method has assigned yet.
Unset == [unset |-> TRUE]

Instances == {"app1", "app2"}
Holders == {"Hype"} \cup Instances

\* The callables the application author decorates.
Callables == {"f_greet", "f_greet0", "f_hi"}

\* func.__name__
FuncName(func) ==
    CASE func = "f_greet"  -> "greet"
      [] func = "f_greet0" -> "greet"
      [] func = "f_hi"     -> "hi"

\* inspect.signature(func).parameters.values():
\*   def greet(name: str)
\*   def greet()
\*   def hi(n, tag=None, age: str = "x")
Signature(func) ==
    CASE func = "f_greet"  -> << [name |-> "name", default |-> Empty, annotation |-> "str"] >>
      [] func = "f_greet0" -> << >>
      [] func = "f_hi"     -> << [name |-> "n", default |-> Empty, annotation |-> Empty],
                                 [name |-> "tag", default |-> None, annotation |-> Empty],
                                 [name |-> "age", default |-> "x", annotation |-> "str"] >>

\* The name= arguments given to command(): absent, empty, or explicit.
NameArgs == {None, "", "hi"}

----------------------------------------------------------------------------
(* dict operations on association lists *)

dict_keys(d) == [i \in 1..Len(d) |-> d[i].key]

dict_has(d, k) == \E i \in 1..Len(d) : d[i].key = k

dict_get(d, k) == d[CHOOSE i \in 1..Len(d) : d[i].key = k].value

\* Faulty variant of d[k] = v: appends without looking for the key.
dict_setitem_append(d, k, v) == Append(d, [key |-> k, value |-> v])

\* d[k] = v: an existing key keeps its position and gets the new value.
dict_setitem(d, k, v) ==
    IF dict_has(d, k)
    THEN [i \in 1..Len(d) |-> IF d[i].key = k THEN [key |-> k, value |-> v] ELSE d[i]]
    ELSE Append(d, [key |-> k, value |-> v])

----------------------------------------------------------------------------
(* src/hype/utils.py *)

\* Faulty variant of convert_param_to_option: always a long flag.
convert_param_to_option_long(param) == "--" \o param

convert_param_to_option(param) ==
    IF Len(param) > 1 THEN "--" \o param ELSE "-" \o param

\* The first index at or after i where sep occurs in s, 0 if there is none.
RECURSIVE str_find(_, _, _)
str_find(s, sep, i) ==
    IF i + Len(sep) - 1 > Len(s) THEN 0
    ELSE IF SubSeq(s, i, i + Len(sep) - 1) = sep THEN i
    ELSE str_find(s, sep, i + 1)

\* str.split(sep): the pieces of s between the occurrences of sep.
RECURSIVE str_split(_, _)
str_split(s, sep) ==
    LET i == str_find(s, sep, 1) IN
    IF i = 0 THEN << s >>
    ELSE << SubSeq(s, 1, i - 1) >> \o str_split(SubSeq(s, i + Len(sep), Len(s)), sep)

IndexError == "<IndexError>"
KeyError == "<KeyError>"

\* option.split('--')[1]; a list of one piece has no element [1].
convert_option_to_string(option) ==
    LET parts == str_split(option, "--") IN
    IF Len(parts) >= 2 THEN parts[2] ELSE IndexError

\* ParamOption(name, required, default, type).to_dict
ParamOption_to_dict(name, required, default, type) ==
    [name |-> name, required |-> required, default |-> default, type |-> type]

\* CommandDict(name, usage, help, aliases, opt, func).to_dict
CommandDict_to_dict(name, usage, help, aliases, opt, func) ==
    [name |-> name, usage |-> usage, help |-> help, aliases |-> aliases,
     options |-> opt, func |-> func]

----------------------------------------------------------------------------
(* Class attributes and instance attributes *)

\* The object that holds __commands, __required_commands and
\* __commands_function for self: they are attributes of the class Hype, and
\* no method assigns them on an instance.
Shared(self) == "Hype"

Range(s) == { s[i] : i \in 1..Len(s) }

----------------------------------------------------------------------------
(* Hype.command: the decorator *)

\* get_type_hints(func) has an entry for every annotated parameter.
type_hints_has(func, pname) ==
    \E i \in 1..Len(Signature(func)) :
        Signature(func)[i].name = pname /\ Signature(func)[i].annotation # Empty

type_hints_get(func, pname) ==
    Signature(func)[CHOOSE i \in 1..Len(Signature(func)) :
                        Signature(func)[i].name = pname].annotation

\* The body of the loop over signature.parameters.values().
deco_param(func, param) ==
    LET annotation == IF type_hints_has(func, param.name)
                      THEN type_hints_get(func, param.name)
                      ELSE param.annotation
        required == IF param.default = Empty THEN TRUE ELSE FALSE
        default == IF param.default # Empty THEN param.default ELSE None
        anon == IF annotation # Empty THEN annotation ELSE None
    IN  ParamOption_to_dict(convert_param_to_option(param.name), required, default, anon)

deco_params(func) ==
    [i \in 1..Len(Signature(func)) |-> deco_param(func, Signature(func)[i])]

\* _name = name if name else func.__name__
deco_name(name, func) == IF name # None /\ name # "" THEN name ELSE FuncName(func)

\* @self.command(name)(func) with usage, aliases and help left at their
\* defaults (None, (), '').
Register(self, name, func) ==
    /\ self \in created
    /\ Len(regLog) < MaxRegs
    /\ LET n == deco_name(name, func) IN
       /\ commands' = [commands EXCEPT ![Shared(self)] =
              dict_setitem(@, n, CommandDict_to_dict(n, None, "", << >>, deco_params(func), func))]
       /\ commands_function' = [commands_function EXCEPT ![Shared(self)] =
              dict_setitem(@, func, [name |-> n])]
       /\ regLog' = Append(regLog, [inst |-> self, name |-> n, func |-> func])
    /\ UNCHANGED <<created, required_commands, command_parser, last>>

\* Hype.commands: the names stored in the descriptors, in key order.
commands_property(self) ==
    LET d == commands[Shared(self)] IN [i \in 1..Len(d) |-> d[i].value.name]

\* Hype(): __init__ sets only self.__parser = HypeParser, a constant.
New(self) ==
    /\ self \notin created
    /\ created' = created \cup {self}
    /\ UNCHANGED <<commands, required_commands, commands_function, command_parser,
                   regLog, last>>

----------------------------------------------------------------------------
(* Hype.echo *)

\* hype.constants.bg_colors: color name -> escape code.
bg_colors == [k \in {"blue", "red", "reset"} |->
                 CASE k = "blue" -> "ESC[44m" [] k = "red" -> "ESC[41m" [] k = "reset" -> "ESC[0m"]

Texts == {"hello"}
Backgrounds == {None, "", "blue", "reset", "ultraviolet"}

\* The keyword arguments of an echo call: background given or not.
EchoOptions == {<< >>} \cup { << [key |-> "background", value |-> b] >> : b \in Backgrounds }

\* Python truth of the modelled values: None and '' are false.
truthy(v) == v # None /\ v # ""

\* options.get(k): None for a missing key.
options_get(options, k) == IF dict_has(options, k) THEN dict_get(options, k) ELSE None

\* Faulty variant of echo: never raises, an unknown color prints the text.
echo_noraise(text, options) ==
    LET got == options_get(options, "background")
        background == IF truthy(got) THEN got ELSE None
    IN  IF background \in DOMAIN bg_colors
        THEN [raised |-> None,
              printed |-> << bg_colors[background] \o text \o bg_colors["reset"] >>]
        ELSE [raised |-> None, printed |-> << text >>]

\* echo(text, **options): what it raises and the strings it hands to print.
echo(text, options) ==
    LET got == options_get(options, "background")
        background == IF truthy(got) THEN got ELSE None
    IN  IF background \in DOMAIN bg_colors
        THEN [raised |-> None,
              printed |-> << bg_colors[background] \o text \o bg_colors["reset"] >>]
        ELSE IF background \notin DOMAIN bg_colors /\ background # None
        THEN [raised |-> "ColorNotFound", printed |-> << >>]
        ELSE [raised |-> None, printed |-> << text >>]

Echo(self, text, options) ==
    /\ self \in created
    /\ last' = [op |-> "echo", text |-> text, options |-> options,
                result |-> echo(text, options)]
    /\ UNCHANGED <<created, commands, required_commands, commands_function,
                   command_parser, regLog>>

----------------------------------------------------------------------------
(* The collaborators of run(): hype.command.HypeCommand and                *)
(* hype.parser.HypeParser, over optparse                                   *)

\* HypeCommand(name, usage, aliases, help): a per-command parser with an
\* empty option table.
HypeCommand(name, usage, aliases, help) ==
    [name |-> name, usage |-> usage, aliases |-> aliases, help |-> help,
     parser |-> << >>]

\* command_parser.parser.add_option(flag, default=, type=, dest=, action=)
add_option(cp, flag, default, type, dest, action) ==
    [cp EXCEPT !.parser = Append(@, [flag |-> flag, default |-> default,
                                     type |-> type, dest |-> dest, action |-> action])]

\* create_bool_option(name): the flag strings of a boolean option.
create_bool_option(name) == << name >>

\* The process arguments: <program> <command-name> [--flag value ...]
ArgvOpts == { << >>, << [key |-> "--name", value |-> "Ada"] >> }
Argvs == [cmd : {"greet", "hi", "nope"}, opts : ArgvOpts]

\* HypeParser(commands).parse_args(): the first token names the command, the
\* rest are that command's options.  An unknown command or an unknown flag
\* is the parser's own error.  command_opt holds one attribute per
\* registered destination, in registration order: the value given, or the
\* option's default.
parse_args(cmds, argv) ==
    IF ~ \E i \in 1..Len(cmds) : cmds[i].name = argv.cmd
    THEN [error |-> "no such command", command |-> None, command_opt |-> << >>]
    ELSE LET command == cmds[CHOOSE i \in 1..Len(cmds) : cmds[i].name = argv.cmd]
             table == command.parser
         IN  IF \E j \in 1..Len(argv.opts) :
                    ~ \E i \in 1..Len(table) : table[i].flag = argv.opts[j].key
             THEN [error |-> "no such option", command |-> command, command_opt |-> << >>]
             ELSE [error |-> None, command |-> command,
                   command_opt |-> [i \in 1..Len(table) |->
                       [key |-> table[i].dest,
                        value |-> IF dict_has(argv.opts, table[i].flag)
                                  THEN dict_get(argv.opts, table[i].flag)
                                  ELSE table[i].default]]]

----------------------------------------------------------------------------
(* Hype.run *)

\* The body of the loop over a command's options (lines 305-349), on
\* st = [error, required, cp]: the exception raised so far, the list
\* __required_commands and the command's parser.
run_option(st, cname, opt) ==
    LET dest == convert_option_to_string(opt.name)
        req  == IF opt.required THEN Append(st.required, << cname, dest >>)
                ELSE st.required
    IN  IF st.error # None THEN st
        ELSE IF opt.required /\ dest = IndexError
        THEN [st EXCEPT !.error = IndexError]
        ELSE IF "action" \notin DOMAIN opt
        THEN [st EXCEPT !.required = req, !.error = KeyError]
        ELSE IF truthy(opt.action)
        THEN IF \E b \in 1..Len(create_bool_option(opt.name)) :
                    create_bool_option(opt.name)[b] = opt.name
             THEN IF dest = IndexError
                  THEN [st EXCEPT !.required = req, !.error = IndexError]
                  ELSE [st EXCEPT !.required = req,
                           !.cp = add_option(@, opt.name, opt.default, None, dest, opt.action)]
             ELSE [st EXCEPT !.required = req]
        ELSE IF dest = IndexError
        THEN [st EXCEPT !.required = req, !.error = IndexError]
        ELSE [st EXCEPT !.required = req,
                 !.cp = add_option(@, opt.name, opt.default, opt.type, dest, None)]

RECURSIVE run_options(_, _, _, _)
run_options(st, cname, options, i) ==
    IF i > Len(options) \/ st.error # None THEN st
    ELSE run_options(run_option(st, cname, options[i]), cname, options, i + 1)

\* The loop over self.__commands.keys() (lines 297-351), on
\* m = [error, required, commands, command_parser].
RECURSIVE run_materialize(_, _, _)
run_materialize(m, reg, k) ==
    IF k > Len(reg) \/ m.error # None THEN m
    ELSE LET d  == reg[k].value
             st == run_options([error |-> None, required |-> m.required,
                                cp |-> HypeCommand(d.name, d.usage, d.aliases, d.help)],
                               d.name, d.options, 1)
         IN  run_materialize(
                 [error |-> st.error, required |-> st.required,
                  commands |-> IF st.error = None THEN Append(m.commands, st.cp)
                               ELSE m.commands,
                  command_parser |-> st.cp],
                 reg, k + 1)

\* The loop over vars(command_opt).items() (lines 368-373).
RECURSIVE run_validate(_, _, _, _, _)
run_validate(cname, command_opt, required, i, params) ==
    IF i > Len(command_opt) THEN [error |-> None, params |-> params]
    ELSE IF << cname, command_opt[i].key >> \in Range(required)
            /\ command_opt[i].value = None
    THEN [error |-> command_opt[i].key, params |-> params]
    ELSE run_validate(cname, command_opt, required, i + 1,
                      Append(params, command_opt[i].value))

\* func(*params): too few or too many positional arguments is a TypeError.
call_ok(func, params) ==
    /\ Len(params) <= Len(Signature(func))
    /\ \A i \in 1..Len(Signature(func)) :
           i > Len(params) => Signature(func)[i].default # Empty

Phases == << "Idle", "Materializing", "Parsing", "Validating", "Invoking", "Done" >>

\* What run() reports: the registry it read, the phases it went through,
\* how it ended, the calls it made and what it left in __required_commands
\* and self.__command_parser.
run_result(self, argv, m, reached, outcome, error, calls, command_opt) ==
    [op |-> "run", inst |-> self, argv |-> argv,
     registry |-> commands[Shared(self)], required |-> m.required,
     command_parser |-> m.command_parser, phases |-> SubSeq(Phases, 1, reached),
     outcome |-> outcome, error |-> error, calls |-> calls,
     command_opt |-> command_opt]

\* Lines 377-378: the call of the registered callable.
run_invoke(self, argv, m, p, v) ==
    LET reg == commands[Shared(self)] IN
    IF dict_has(reg, p.command.name)
    THEN IF call_ok(dict_get(reg, p.command.name).func, v.params)
         THEN run_result(self, argv, m, 6, "Done", None,
                  << [func |-> dict_get(reg, p.command.name).func, args |-> v.params] >>,
                  p.command_opt)
         ELSE run_result(self, argv, m, 5, "TypeError", "TypeError", << >>, p.command_opt)
    ELSE run_result(self, argv, m, 6, "Done", None, << >>, p.command_opt)

\* Lines 368-373: parser.error() and parser.exit() end the run.
run_validated(self, argv, m, p, v) ==
    IF v.error # None
    THEN run_result(self, argv, m, 4, "Failed",
                    "Option: " \o v.error \o " is required.", << >>, p.command_opt)
    ELSE run_invoke(self, argv, m, p, v)

\* Lines 355-366: the parse; boolean_options is empty, so its loop does nothing.
run_parsed(self, argv, m, p) ==
    IF p.error # None
    THEN run_result(self, argv, m, 3, "Failed", p.error, << >>, << >>)
    ELSE run_validated(self, argv, m, p,
             run_validate(p.command.name, p.command_opt, m.required, 1, << >>))

\* An exception of the materializing loop leaves run() at once.
run_materialized(self, argv, m) ==
    IF m.error # None
    THEN run_result(self, argv, m, 2, m.error, m.error, << >>, << >>)
    ELSE run_parsed(self, argv, m, parse_args(m.commands, argv))

\* run() on self with the process arguments argv.
run(self, argv) ==
    run_materialized(self, argv,
        run_materialize([error |-> None,
                         required |-> required_commands[Shared(self)],
                         commands |-> << >>,
                         command_parser |-> command_parser[self]],
                        commands[Shared(self)], 1))

Run(self, argv) ==
    /\ self \in created
    /\ Len(required_commands[Shared(self)]) < MaxIndexLen
    /\ last' = run(self, argv)
    /\ required_commands' = [required_commands EXCEPT ![Shared(self)] = last'.required]
    /\ command_parser' = [command_parser EXCEPT ![self] = last'.command_parser]
    /\ UNCHANGED <<created, commands, commands_function, regLog>>

----------------------------------------------------------------------------

Init ==
    /\ created = {"app1"}
    /\ commands = [h \in Holders |-> << >>]
    /\ required_commands = [h \in Holders |-> << >>]
    /\ commands_function = [h \in Holders |-> << >>]
    /\ command_parser = [i \in Instances |-> Unset]
    /\ regLog = << >>
    /\ last = [op |-> "none"]

Next ==
    \/ \E self \in Instances : New(self)
    \/ \E self \in Instances, name \in NameArgs, func \in Callables :
           Register(self, name, func)
    \/ \E self \in Instances, argv \in Argvs : Run(self, argv)
    \/ \E self \in Instances, text \in Texts, options \in EchoOptions :
           Echo(self, text, options)

Spec == Init /\ [][Next]_vars

----------------------------------------------------------------------------
(* Properties *)

RegisteredNames == { regLog[i].name : i \in 1..Len(regLog) }

\* The most recent registration under a name.
LastReg(name) ==
    regLog[CHOOSE i \in 1..Len(regLog) :
               /\ regLog[i].name = name
               /\ \A j \in (i + 1)..Len(regLog) : regLog[j].name # name]

NoDuplicates(s) == \A i, j \in 1..Len(s) : s[i] = s[j] => i = j

\* The name of the i-th declared parameter of the callable of descriptor d.
ParamName(d, i) == Signature(d.func)[i].name

\* The options of descriptor d that are required and that argv leaves out.
MissingRequired(d, argv) ==
    { i \in 1..Len(d.options) :
          d.options[i].required /\ ~ dict_has(argv.opts, d.options[i].name) }

\* The positional arguments the claim expects: per declared parameter, the
\* value given on the command line, or else the parameter's default.
ExpectedArgs(d, argv) ==
    [i \in 1..Len(d.options) |->
        IF dict_has(argv.opts, d.options[i].name)
        THEN dict_get(argv.opts, d.options[i].name)
        ELSE d.options[i].default]

\* C1: a run() that invokes a registered command with one or more
\* parameters, with a value supplied for every required option, calls the
\* registered callable exactly once, positionally, with the parsed values in
\* declaration order, and ends Done.
C1_RunCallsCallable ==
    (/\ last.op = "run"
     /\ dict_has(last.registry, last.argv.cmd)
     /\ Len(dict_get(last.registry, last.argv.cmd).options) >= 1
     /\ MissingRequired(dict_get(last.registry, last.argv.cmd), last.argv) = {})
    => LET d == dict_get(last.registry, last.argv.cmd) IN
       /\ last.outcome = "Done"
       /\ last.calls = << [func |-> d.func, args |-> ExpectedArgs(d, last.argv)] >>

\* C2: a run() whose invoked command has a required option without a value
\* ends through the parser's error path with an error naming that option,
\* and the callable is never invoked.
C2_MissingRequiredFails ==
    (/\ last.op = "run"
     /\ dict_has(last.registry, last.argv.cmd)
     /\ MissingRequired(dict_get(last.registry, last.argv.cmd), last.argv) # {})
    => LET d == dict_get(last.registry, last.argv.cmd) IN
       /\ last.outcome = "Failed"
       /\ \E i \in MissingRequired(d, last.argv) :
              last.error = "Option: " \o ParamName(d, i) \o " is required."
       /\ last.calls = << >>

\* C3: the registry holds exactly one descriptor per registered name, the
\* one of the most recent registration under that name, and the commands
\* listing has each registered name exactly once.
C3_RegistryLastWriteWins ==
    \A self \in created :
        LET reg == commands[Shared(self)] IN
        /\ NoDuplicates(dict_keys(reg))
        /\ Range(dict_keys(reg)) = RegisteredNames
        /\ \A n \in RegisteredNames :
               /\ dict_get(reg, n).name = n
               /\ dict_get(reg, n).func = LastReg(n).func
               /\ dict_get(reg, n).options = deco_params(LastReg(n).func)
        /\ NoDuplicates(commands_property(self))
        /\ Range(commands_property(self)) = RegisteredNames

\* A name was registered twice, with two callables of different signatures.
C3_Witness ==
    /\ Len(regLog) = 2
    /\ regLog[1].name = regLog[2].name
    /\ regLog[1].func = "f_greet"
    /\ regLog[2].func = "f_greet0"
    /\ Len(commands["Hype"]) = 1

\* C4: the stored option list has one descriptor per declared parameter, in
\* declaration order; the flag is --name for a name longer than one
\* character and -n for one character; required is true and the default
\* null exactly when the parameter has no default, otherwise required is
\* false and the default is the parameter's.
C4_OptionsMatchSignature ==
    \A self \in created :
        \A k \in 1..Len(commands[Shared(self)]) :
            LET d   == commands[Shared(self)][k].value
                sig == Signature(d.func)
            IN  /\ Len(d.options) = Len(sig)
                /\ \A i \in 1..Len(sig) :
                       /\ d.options[i].name =
                              (IF Len(sig[i].name) > 1 THEN "--" ELSE "-") \o sig[i].name
                       /\ (d.options[i].required /\ d.options[i].default = None)
                              <=> (sig[i].default = Empty)
                       /\ sig[i].default # Empty =>
                              /\ ~ d.options[i].required
                              /\ d.options[i].default = sig[i].default

\* Registered: a callable of three parameters (one short and required, two
\* with defaults) and a callable without parameters.
C4_Witness ==
    /\ dict_has(commands["Hype"], "hi")
    /\ dict_get(commands["Hype"], "hi").func = "f_hi"
    /\ Len(dict_get(commands["Hype"], "hi").options) = 3
    /\ dict_has(commands["Hype"], "greet")
    /\ dict_get(commands["Hype"], "greet").options = << >>

\* C5: materializing twice over the same registry accumulates no duplicate
\* entry in what materialization writes.
C5_NoDuplicateAccumulation ==
    \A h \in Holders : NoDuplicates(required_commands[h])

\* The background an echo call was given; null when the key is absent.
GivenBackground == options_get(last.options, "background")

\* C6: echo raises ColorNotFound and prints nothing for every background
\* that is not null and not a key of the table; for a key it prints once
\* the code, the text and the reset code; for a null or absent background it
\* prints the text once.
C6_EchoOriginal ==
    last.op = "echo" =>
        /\ (GivenBackground # None /\ GivenBackground \notin DOMAIN bg_colors)
               => (last.result.raised = "ColorNotFound" /\ last.result.printed = << >>)
        /\ GivenBackground \in DOMAIN bg_colors
               => /\ last.result.raised = None
                  /\ last.result.printed =
                         << bg_colors[GivenBackground] \o last.text \o bg_colors["reset"] >>
        /\ GivenBackground = None
               => (last.result.raised = None /\ last.result.printed = << last.text >>)

\* C6 as amended: echo raises ColorNotFound and prints nothing for every
\* background string that is not empty and not a key of the table; for a
\* key it prints once the code, the text and the reset code; for a null,
\* absent or empty background it prints the text once.
C6_EchoAmended ==
    last.op = "echo" =>
        /\ (GivenBackground \notin {None, ""} /\ GivenBackground \notin DOMAIN bg_colors)
               => (last.result.raised = "ColorNotFound" /\ last.result.printed = << >>)
        /\ GivenBackground \in DOMAIN bg_colors
               => /\ last.result.raised = None
                  /\ last.result.printed =
                         << bg_colors[GivenBackground] \o last.text \o bg_colors["reset"] >>
        /\ GivenBackground \in {None, ""}
               => (last.result.raised = None /\ last.result.printed = << last.text >>)

\* echo was called with a color the table does not have, and raised.
C6_Witness ==
    /\ last.op = "echo"
    /\ GivenBackground = "ultraviolet"
    /\ last.result.raised = "ColorNotFound"

\* C7: for every parameter name registered, the destination derived from its
\* flag is the name itself, and no run() fails to derive a destination.
C7_DestinationRoundTrip ==
    /\ \A e \in Range(regLog) :
           \A i \in 1..Len(Signature(e.func)) :
               convert_option_to_string(convert_param_to_option(Signature(e.func)[i].name))
                   = Signature(e.func)[i].name
    /\ last.op = "run" => last.outcome # IndexError

\* C8: every run() goes through Idle, Materializing, Parsing, Validating,
\* Invoking, Done in that order; the callable is invoked at most once and
\* only after validation; a run that does not reach Done ends Failed, from
\* Parsing or Validating.
C8_PhaseOrder ==
    last.op = "run" =>
        /\ last.phases = SubSeq(Phases, 1, Len(last.phases))
        /\ Len(last.calls) <= 1
        /\ last.calls # << >> => Len(last.phases) >= 5
        /\ last.outcome # "Done" =>
               /\ last.outcome = "Failed"
               /\ last.phases[Len(last.phases)] \in {"Parsing", "Validating"}

\* The pairs (command name, destination) of the required options of the
\* descriptors of a registry.
RequiredPairs(reg) ==
    UNION { { << reg[k].value.name, ParamName(reg[k].value, i) >> :
                  i \in { j \in 1..Len(reg[k].value.options) :
                              reg[k].value.options[j].required } } :
            k \in 1..Len(reg) }

\* C9: the index consulted during validation holds a pair exactly when the
\* descriptor currently registered under that command name has a required
\* option with that destination.
C9_IndexMatchesRegistry ==
    (last.op = "run" /\ Len(last.phases) >= 4)
        => Range(last.required) = RequiredPairs(last.registry)

\* C10: the registry is one store shared by all instances and dispatch does
\* not change it: every instance lists every name registered through any
\* instance; a run() on one instance that invokes, with every required
\* option supplied, a command registered through another instance calls
\* that command's callable and ends Done; and only a registration changes
\* the registry.
C10_Dispatchable ==
    /\ \A self \in created : Range(commands_property(self)) = RegisteredNames
    /\ (/\ last.op = "run"
        /\ dict_has(last.registry, last.argv.cmd)
        /\ MissingRequired(dict_get(last.registry, last.argv.cmd), last.argv) = {}
        /\ \E e \in Range(regLog) :
               /\ e.inst # last.inst
               /\ e.name = last.argv.cmd
               /\ e.func = dict_get(last.registry, last.argv.cmd).func)
       => LET d == dict_get(last.registry, last.argv.cmd) IN
          /\ last.outcome = "Done"
          /\ last.calls = << [func |-> d.func, args |-> ExpectedArgs(d, last.argv)] >>

C10_SharedRegistry ==
    /\ [] C10_Dispatchable
    /\ [][regLog' = regLog => commands' = commands]_vars

====
